---- MODULE Spec2Model ----
(***************************************************************************)
(* Challenge funding and payout reconciliation of the bounty board.        *)
(*                                                                         *)
(* The persistent state is the database (challenges, payments) and the     *)
(* payment processor's own record of the charges it was asked to make.     *)
(* Every request handler is a process held in a slot of `inflight`; each   *)
(* `await` of a database or processor call is one atomic                   *)
(* step, so handlers interleave exactly where the code can be suspended.   *)
(* Money is counted in tenths of a cent, so that 10% of a whole number of   *)
(* cents is exact.                                                         *)
(***************************************************************************)
EXTENDS Integers, Sequences, FiniteSets, TLC

(* ------------------------------ bounds --------------------------------- *)

\* number of requests that may arrive in one behaviour
MaxRequests == 3

\* number of request handlers that may be suspended at the same time
MaxInflight == 2

Slots == 1..MaxInflight

(* -------------------- fee policy (tenths of a cent) -------------------- *)

PLATFORM_FEE_PERCENT == 10

MIN_PLATFORM_FEE == 2000

BUYOUT_FEE_AMOUNT == 15000

\* the buyout fee written into the BUYOUT_FEE payment row by the charge route
CHARGE_ROUTE_BUYOUT_FEE == 25000

Max(a, b) == IF a >= b THEN a ELSE b

\* a fee policy that takes the fee out of the winner's payout
calculatePlatformFeeDeducted(rewardAmount, buyoutFeePaid) ==
    LET platformFee == IF buyoutFeePaid THEN 0
                       ELSE Max((rewardAmount * PLATFORM_FEE_PERCENT) \div 100,
                                MIN_PLATFORM_FEE)
    IN  [rewardAmount  |-> rewardAmount,
         platformFee   |-> platformFee,
         netPayout     |-> rewardAmount - platformFee,
         buyoutFeePaid |-> buyoutFeePaid,
         totalCost     |-> IF buyoutFeePaid THEN rewardAmount + BUYOUT_FEE_AMOUNT
                           ELSE rewardAmount + platformFee]

calculatePlatformFee(rewardAmount, buyoutFeePaid) ==
    IF buyoutFeePaid
    THEN [rewardAmount  |-> rewardAmount,
          platformFee   |-> 0,
          netPayout     |-> rewardAmount,
          buyoutFeePaid |-> TRUE,
          totalCost     |-> rewardAmount + BUYOUT_FEE_AMOUNT]
    ELSE LET calculatedFee == (rewardAmount * PLATFORM_FEE_PERCENT) \div 100
             platformFee   == Max(calculatedFee, MIN_PLATFORM_FEE)
         IN  [rewardAmount  |-> rewardAmount,
              platformFee   |-> platformFee,
              netPayout     |-> rewardAmount,
              buyoutFeePaid |-> FALSE,
              totalCost     |-> rewardAmount + platformFee]

calculateFundingAmount(rewardAmount, buyoutFeePaid) ==
    calculatePlatformFee(rewardAmount, buyoutFeePaid).totalCost

(* ------------------------------ universe ------------------------------- *)

\* rows of the users table; u1 created every challenge
LocalUsers == {"u1", "u2"}

Creator == "u1"

\* the processor's id of the account behind a local user
WhopIdOf(u) == IF u = "u1" THEN "w1" ELSE "w2"

ChallengeIds == {"c1"}

\* an id that names no row of the challenges table
UnknownChallenge == "cX"

RewardTypes == {"USD", "SUBSCRIPTION"}

RewardAmounts == {100000}

(* --------------------------- webhook requests -------------------------- *)

\* process.env.WHOP_WEBHOOK_SECRET
WHOP_WEBHOOK_SECRET == "whsec"

\* keys a sender may sign with
SenderKeys == {WHOP_WEBHOOK_SECRET, "wrong"}

Timestamp == "t1"

NoBody ==
    [json |-> FALSE, action |-> "", type |-> "", hasData |-> FALSE,
     challengeId |-> "", userId |-> "", user_id |-> "",
     receipt_id |-> 0]

\* a body that is not JSON
NotJsonBody == NoBody

\* {"action": "payment_succeeded"} : no data object
NoDataBody == [NoBody EXCEPT !.json = TRUE, !.action = "payment_succeeded"]

\* {"data": {...}} : neither action nor type
NoTypeBody == [NoBody EXCEPT !.json = TRUE, !.hasData = TRUE]

\* {"type": "payment_failed", "data": {...}} : the event type in the `type` field
TypeFailedBody ==
    [NoBody EXCEPT !.json = TRUE, !.type = "payment_failed", !.hasData = TRUE,
                   !.challengeId = "c1", !.user_id = "w1"]

\* {"action": "payment_canceled", "data": {...}} : the payer gave the purchase up
CanceledBody ==
    [NoBody EXCEPT !.json = TRUE, !.action = "payment_canceled", !.hasData = TRUE,
                   !.challengeId = "c1", !.user_id = "w1"]

\* HMAC-SHA256 as a collision-free function of key and message
Hmac(key, msg) == [key |-> key, ts |-> msg[1], msg |-> msg[2]]

NoDigest == [key |-> "", ts |-> "", msg |-> NoBody]

\* the x-whop-signature header: absent, or "t=<t>,v1=<v1>" (a part may be missing)
NoSig == [present |-> FALSE, t |-> "", v1 |-> NoDigest]

\* a verifier that checks the key of the digest but not the body it was made from
verifyWebhookSignatureKeyOnly(payload, signature) ==
    signature.v1.key = WHOP_WEBHOOK_SECRET

verifyWebhookSignature(payload, signature) ==
    IF WHOP_WEBHOOK_SECRET = "" THEN FALSE
    ELSE IF signature.t = "" \/ signature.v1 = NoDigest THEN FALSE
    ELSE LET signedPayload     == <<signature.t, payload>>
             expectedSignature == Hmac(WHOP_WEBHOOK_SECRET, signedPayload)
         IN  signature.v1 = expectedSignature

(* -------------------------------- state -------------------------------- *)

VARIABLES
    challenges,   \* challenges table: id -> row
    payments,     \* payments table, in order of creation
    charges,      \* the processor's charges, in order of creation; a charge's id is its index
    inflight,     \* slot -> the handler suspended there
    requests,     \* requests received so far
    response,     \* the response sent last: the handler's kind and the HTTP status
    submissions,  \* submissions table, in order of creation; a row's id is its index
    payouts       \* the processor's transfers to participants, in order of execution

vars == <<challenges, payments, charges, inflight, requests, response,
          submissions, payouts>>

db == <<challenges, payments>>

\* feeCalculation of a creation request: absent ("none"), an object without the
\* two numbers ("empty"), or an object with them ("numbers")
NoFeeCalculation == [given |-> "none", platformFee |-> 0, netPayout |-> 0]

\* the body of a creation request, with the authenticated caller
NoCreate ==
    [caller |-> "", complete |-> FALSE, rewardType |-> "", rewardAmount |-> 0,
     buyoutFeePaid |-> FALSE, rewardSubscriptionId |-> FALSE,
     feeCalculation |-> NoFeeCalculation]

\* recalculatedFees before it is computed
NoFees ==
    [rewardAmount |-> 0, platformFee |-> 0, netPayout |-> 0,
     buyoutFeePaid |-> FALSE, totalCost |-> 0]

Idle ==
    [kind |-> "idle", pc |-> "idle", sig |-> NoSig, body |-> NoBody,
     ch |-> "", user |-> "", pid |-> 0, lp |-> 0, completed |-> FALSE,
     creatorId |-> "", amount |-> 0, create |-> NoCreate, fees |-> NoFees,
     sub |-> 0, action |-> ""]

\* a request is taken by the first slot that holds no handler
Free(s) ==
    /\ inflight[s].kind = "idle"
    /\ \A t \in Slots : t < s => inflight[t].kind # "idle"

\* the handler in slot s returns the response `status` and ends
Respond(s, status) ==
    /\ response' = [kind |-> inflight[s].kind, status |-> status]
    /\ inflight' = [inflight EXCEPT ![s] = Idle]

\* the handler in slot s is suspended at its next call
Goto(s, label) ==
    /\ inflight' = [inflight EXCEPT ![s] = [@ EXCEPT !.pc = label]]
    /\ UNCHANGED response

NewChallenge(rewardType, rewardAmount, buyoutFeePaid) ==
    LET fee == calculatePlatformFee(rewardAmount, buyoutFeePaid)
    IN  [creatorId     |-> Creator,
         rewardType    |-> rewardType,
         rewardAmount  |-> IF rewardType = "SUBSCRIPTION" THEN 0 ELSE rewardAmount,
         platformFee   |-> IF rewardType = "SUBSCRIPTION" THEN 0 ELSE fee.platformFee,
         buyoutFeePaid |-> IF rewardType = "SUBSCRIPTION" THEN FALSE ELSE buyoutFeePaid,
         netPayout     |-> IF rewardType = "SUBSCRIPTION" THEN 0 ELSE fee.netPayout,
         status        |-> "DRAFT",
         isFunded      |-> FALSE,
         approvedSubmissions |-> 0,
         deleted       |-> FALSE]

Init ==
    /\ \E bo \in BOOLEAN, amt \in RewardAmounts :
       \E rt \in RewardTypes :
          challenges = [c \in ChallengeIds |-> NewChallenge(rt, amt, bo)]
       /\ (rt = "SUBSCRIPTION" => ~bo)
    /\ payments = <<>>
    /\ charges = <<>>
    /\ inflight = [s \in Slots |-> Idle]
    /\ requests = 0
    /\ response = [kind |-> "idle", status |-> 0]
    /\ submissions = <<>>
    /\ payouts = <<>>

(* ------------------------------ database ------------------------------- *)

\* prisma.payment.create: the row appended to the payments table
Payment(challengeId, userId, type, method, amount, status, intentId, receiptId) ==
    [challengeId |-> challengeId, userId |-> userId, type |-> type,
     method |-> method, amount |-> amount, status |-> status,
     stripePaymentIntentId |-> intentId, whopReceiptId |-> receiptId,
     submissionId |-> 0]

\* the challenges table holds a row with this id.  A deleted row stays in the
\* function, marked, for the handlers that read it before its deletion.
Exists(c) == c \in DOMAIN challenges /\ ~challenges[c].deleted

\* payments.userId references users.id and payments.challengeId references
\* challenges.id: an insert naming no such row throws
ForeignKeysHold(row) == row.userId \in LocalUsers /\ Exists(row.challengeId)

PaymentsOf(c) == {i \in DOMAIN payments : payments[i].challengeId = c}

FundingTypes == {"FUNDING", "PLATFORM_FEE", "BUYOUT_FEE"}

(* ------------------------------ processor ------------------------------ *)

\* A charge records the outcomes it has had: an attempt may fail and a later
\* attempt of the same charge succeed; a charge that succeeded is settled.
Outcomes == {"succeeded", "failed"}

Settled(k) == "succeeded" \in charges[k].outcomes

\* the name the processor gives the event of an outcome
EventName(outcome) ==
    IF outcome = "succeeded" THEN "payment_succeeded" ELSE "payment_failed"

\* the event the processor sends for outcome o of charge k: data carries the
\* receipt id, the payer and the metadata given when the charge was made
EventBody(k, o) ==
    [json |-> TRUE, action |-> EventName(o), type |-> "",
     hasData |-> TRUE,
     challengeId |-> charges[k].challengeId, userId |-> charges[k].userId,
     user_id |-> charges[k].user_id, receipt_id |-> k]

\* the payer confirms the purchase or the card is declined
ProcessorSettle(k) ==
    /\ k \in DOMAIN charges
    /\ ~Settled(k)
    /\ \E o \in Outcomes \ charges[k].outcomes :
          charges' = [charges EXCEPT ![k].outcomes = @ \cup {o}]
    /\ UNCHANGED <<challenges, payments, inflight, requests, response, submissions, payouts>>

(* --------------------- POST /api/webhooks/whop ------------------------- *)

OtherBody(b) == IF b = NotJsonBody THEN NoDataBody ELSE NotJsonBody

\* bodies a webhook request may carry now
WebhookBodies ==
    UNION {{EventBody(k, o) : o \in charges[k].outcomes} : k \in DOMAIN charges}
        \cup {NotJsonBody, NoDataBody, NoTypeBody}

\* signature headers a request carrying `body` may have
SignatureHeaders(body) ==
    {NoSig, [present |-> TRUE, t |-> "", v1 |-> NoDigest]}
        \cup {[present |-> TRUE, t |-> Timestamp, v1 |-> Hmac(k, <<Timestamp, body>>)] :
                k \in SenderKeys}
        \cup {[present |-> TRUE, t |-> Timestamp,
               v1 |-> Hmac(WHOP_WEBHOOK_SECRET, <<Timestamp, OtherBody(body)>>)]}

\* a request reaches the endpoint: await request.text()
WebhookArrive(s) ==
    /\ Free(s)
    /\ requests < MaxRequests
    /\ \E body \in WebhookBodies : \E sig \in SignatureHeaders(body) :
          inflight' = [inflight EXCEPT ![s] =
                          [Idle EXCEPT !.kind = "webhook", !.pc = "verify",
                                       !.sig = sig, !.body = body]]
    /\ requests' = requests + 1
    /\ UNCHANGED <<challenges, payments, charges, response, submissions, payouts>>

\* events the processor sends in its other spellings
SpelledBodies == {TypeFailedBody, CanceledBody}

\* the processor delivers one of them, correctly signed
WebhookArriveSpelled(s) ==
    /\ Free(s)
    /\ requests < MaxRequests
    /\ \E body \in SpelledBodies :
          inflight' = [inflight EXCEPT ![s] =
                          [Idle EXCEPT !.kind = "webhook", !.pc = "verify",
                                       !.sig = [present |-> TRUE, t |-> Timestamp,
                                                v1 |-> Hmac(WHOP_WEBHOOK_SECRET,
                                                            <<Timestamp, body>>)],
                                       !.body = body]]
    /\ requests' = requests + 1
    /\ UNCHANGED <<challenges, payments, charges, response, submissions, payouts>>

SuccessEvents == {"app_payment.succeeded", "payment_succeeded", "payment_success"}

FailedEvents == {"app_payment.failed", "payment_failed"}

\* event.action || event.type
eventType(event) == IF event.action # "" THEN event.action ELSE event.type

\* the switch on eventType: the handler the event is given to
dispatch(event) ==
    IF eventType(event) \in SuccessEvents THEN "handlePaymentSuccess"
    ELSE IF eventType(event) \in FailedEvents THEN "handlePaymentFailed"
    ELSE "unhandled"

\* the handler from the signature check to its first database call
WebhookPOST(s) ==
    LET r     == inflight[s]
        event == r.body
    IN
    /\ r.kind = "webhook" /\ r.pc = "verify"
    /\ IF ~r.sig.present THEN Respond(s, 401)
       ELSE IF ~verifyWebhookSignature(r.body, r.sig) THEN Respond(s, 401)
       ELSE IF ~event.json THEN Respond(s, 500)
       ELSE IF dispatch(event) = "handlePaymentSuccess"
            THEN IF ~event.hasData THEN Respond(s, 200)
                 ELSE IF event.challengeId = "" THEN Respond(s, 200)
                 ELSE LET userId == IF event.userId # "" THEN event.userId
                                                         ELSE event.user_id
                      IN  IF userId = "" THEN Respond(s, 200)
                          ELSE /\ inflight' = [inflight EXCEPT ![s] =
                                      [@ EXCEPT !.pc = "hps_find",
                                                !.ch = event.challengeId,
                                                !.user = userId,
                                                !.pid = event.receipt_id]]
                               /\ UNCHANGED response
       ELSE IF dispatch(event) = "handlePaymentFailed"
            THEN IF ~event.hasData THEN Respond(s, 200)
                 ELSE Goto(s, "hpf_find")
       ELSE Respond(s, 200)
    /\ UNCHANGED <<challenges, payments, charges, requests, submissions, payouts>>

\* handlePaymentSuccess: prisma.challenge.findUnique
SuccessFindChallenge(s) ==
    LET r == inflight[s] IN
    /\ r.kind = "webhook" /\ r.pc = "hps_find"
    /\ IF ~Exists(r.ch) THEN Respond(s, 200) ELSE Goto(s, "hps_create")
    /\ UNCHANGED <<challenges, payments, charges, requests, submissions, payouts>>

\* handlePaymentSuccess: prisma.payment.create
SuccessCreatePayment(s) ==
    LET r   == inflight[s]
        row == Payment(r.ch, r.user, "FUNDING", "WHOP",
                       challenges[r.ch].rewardAmount, "COMPLETED", 0, r.pid)
    IN
    /\ r.kind = "webhook" /\ r.pc = "hps_create"
    /\ IF ForeignKeysHold(row)
       THEN /\ payments' = Append(payments, row)
            /\ Goto(s, "hps_funded")
       ELSE /\ UNCHANGED payments
            /\ Respond(s, 200)
    /\ UNCHANGED <<challenges, charges, requests, submissions, payouts>>

\* handlePaymentSuccess: first prisma.challenge.update
SuccessMarkFunded(s) ==
    LET r == inflight[s] IN
    /\ r.kind = "webhook" /\ r.pc = "hps_funded"
    /\ IF Exists(r.ch)
       THEN /\ challenges' = [challenges EXCEPT ![r.ch].status = "FUNDED",
                                                ![r.ch].isFunded = TRUE]
            /\ Goto(s, "hps_active")
       ELSE /\ UNCHANGED challenges
            /\ Respond(s, 200)
    /\ UNCHANGED <<payments, charges, requests, submissions, payouts>>

\* handlePaymentSuccess: second prisma.challenge.update
SuccessActivate(s) ==
    LET r == inflight[s] IN
    /\ r.kind = "webhook" /\ r.pc = "hps_active"
    /\ IF Exists(r.ch)
       THEN challenges' = [challenges EXCEPT ![r.ch].status = "ACTIVE"]
       ELSE UNCHANGED challenges
    /\ Respond(s, 200)
    /\ UNCHANGED <<payments, charges, requests, submissions, payouts>>

\* handlePaymentFailed: prisma.paymentSession.findUnique.  An event of a charge
\* carries no session_id and the payment_sessions table has no row, so the
\* lookup yields nothing (or throws) and the handler returns.
FailedFindSession(s) ==
    LET r == inflight[s] IN
    /\ r.kind = "webhook" /\ r.pc = "hpf_find"
    /\ Respond(s, 200)
    /\ UNCHANGED <<challenges, payments, charges, requests, submissions, payouts>>

(* ------------------ POST /api/create-checkout-session ------------------ *)

\* the total the funding page sends as `amount`: reward_amount + platformFee
FundingPageTotal(c) == challenges[c].rewardAmount + challenges[c].platformFee

\* an amount a client may send instead: $1.004
OtherAmount == 1004

\* request bodies {challengeId, amount, creatorId} with the authenticated caller
\* ("" : no caller is authenticated)
CheckoutRequests ==
    {[caller |-> "", challengeId |-> "c1", creatorId |-> Creator, amount |-> OtherAmount],
     [caller |-> Creator, challengeId |-> "c1", creatorId |-> Creator, amount |-> 0],
     [caller |-> Creator, challengeId |-> "c1", creatorId |-> Creator,
      amount |-> FundingPageTotal("c1")],
     [caller |-> "u2", challengeId |-> "c1", creatorId |-> Creator,
      amount |-> OtherAmount],
     [caller |-> "u2", challengeId |-> "c1", creatorId |-> "u2",
      amount |-> FundingPageTotal("c1")],
     [caller |-> Creator, challengeId |-> UnknownChallenge, creatorId |-> Creator,
      amount |-> OtherAmount]}

\* Math.round(parseFloat(totalAmount.toFixed(2)) * 100): the amount in whole cents
amountInCents(totalAmount) == (totalAmount + 5) \div 10

\* the request reaches the handler: getUserFromHeaders, prisma.user.upsert, and
\* the test of the required fields
CheckoutArrive(s) ==
    /\ Free(s)
    /\ requests < MaxRequests
    /\ \E body \in CheckoutRequests :
          IF body.caller = ""
          THEN /\ response' = [kind |-> "checkout", status |-> 401]
               /\ UNCHANGED inflight
          ELSE IF body.challengeId = "" \/ body.amount = 0 \/ body.creatorId = ""
          THEN /\ response' = [kind |-> "checkout", status |-> 400]
               /\ UNCHANGED inflight
          ELSE /\ inflight' = [inflight EXCEPT ![s] =
                      [Idle EXCEPT !.kind = "checkout", !.pc = "cs_find",
                                   !.ch = body.challengeId, !.user = body.caller,
                                   !.creatorId = body.creatorId,
                                   !.amount = body.amount]]
               /\ UNCHANGED response
    /\ requests' = requests + 1
    /\ UNCHANGED <<challenges, payments, charges, submissions, payouts>>

\* prisma.challenge.findFirst({id, creatorId, status: 'DRAFT'}); creatorId is the
\* one the request body names
CheckoutFindChallenge(s) ==
    LET r == inflight[s] IN
    /\ r.kind = "checkout" /\ r.pc = "cs_find"
    /\ IF /\ Exists(r.ch)
          /\ challenges[r.ch].creatorId = r.creatorId
          /\ challenges[r.ch].status = "DRAFT"
       THEN Goto(s, "cs_charge")
       ELSE Respond(s, 404)
    /\ UNCHANGED <<challenges, payments, charges, requests, submissions, payouts>>

\* whopSdk.payments.chargeUser for the amount the request named: settles at
\* once, needs the payer's confirmation, or fails.  The charge is recorded by
\* the money it asks for.
CheckoutChargeUser(s) ==
    LET r == inflight[s]
        charge(o) == [challengeId |-> r.ch, userId |-> r.user,
                      user_id |-> WhopIdOf(r.user),
                      amount |-> 10 * amountInCents(r.amount),
                      outcomes |-> o]
    IN
    /\ r.kind = "checkout" /\ r.pc = "cs_charge"
    /\ \/ /\ \E o \in {{"succeeded"}, {}} : charges' = Append(charges, charge(o))
          /\ Respond(s, 200)
       \/ /\ UNCHANGED charges
          /\ Respond(s, 500)
    /\ UNCHANGED <<challenges, payments, requests, submissions, payouts>>

(* --------------------------- POST /api/charge -------------------------- *)

\* the request reaches the handler: getAuthenticatedUser, request.json()
ChargeArrive(s) ==
    /\ Free(s)
    /\ requests < MaxRequests
    /\ \E caller \in LocalUsers \cup {""}, c \in ChallengeIds \cup {UnknownChallenge, ""} :
          IF caller = ""
          THEN /\ response' = [kind |-> "charge", status |-> 401]
               /\ UNCHANGED inflight
          ELSE IF c = ""
          THEN /\ response' = [kind |-> "charge", status |-> 400]
               /\ UNCHANGED inflight
          ELSE /\ inflight' = [inflight EXCEPT ![s] =
                      [Idle EXCEPT !.kind = "charge", !.pc = "ch_find",
                                   !.ch = c, !.user = caller]]
               /\ UNCHANGED response
    /\ requests' = requests + 1
    /\ UNCHANGED <<challenges, payments, charges, submissions, payouts>>

\* prisma.challenge.findUnique and the checks that follow it
ChargeFindChallenge(s) ==
    LET r == inflight[s] IN
    /\ r.kind = "charge" /\ r.pc = "ch_find"
    /\ IF ~Exists(r.ch) THEN Respond(s, 404)
       ELSE IF challenges[r.ch].creatorId # r.user THEN Respond(s, 403)
       ELSE IF challenges[r.ch].isFunded THEN Respond(s, 400)
       ELSE IF challenges[r.ch].rewardType = "SUBSCRIPTION" THEN Goto(s, "ch_access")
       ELSE Goto(s, "ch_whop")
    /\ UNCHANGED <<challenges, payments, charges, requests, submissions, payouts>>

\* whopSDK.checkUserCompanyAccess: granted, refused, or the call throws
ChargeCheckAccess(s) ==
    LET r == inflight[s] IN
    /\ r.kind = "charge" /\ r.pc = "ch_access"
    /\ \/ Goto(s, "ch_subpay")
       \/ Respond(s, 403)
       \/ Respond(s, 500)
    /\ UNCHANGED <<challenges, payments, charges, requests, submissions, payouts>>

\* subscription branch: prisma.payment.create
ChargeSubscriptionPayment(s) ==
    LET r == inflight[s] IN
    /\ r.kind = "charge" /\ r.pc = "ch_subpay"
    /\ IF Exists(r.ch)
       THEN /\ payments' = Append(payments,
                   Payment(r.ch, r.user, "FUNDING", "SUBSCRIPTION", 0, "COMPLETED", 0, 0))
            /\ Goto(s, "ch_subfund")
       ELSE /\ UNCHANGED payments
            /\ Respond(s, 500)
    /\ UNCHANGED <<challenges, charges, requests, submissions, payouts>>

\* subscription branch: prisma.challenge.update
ChargeSubscriptionFund(s) ==
    LET r == inflight[s] IN
    /\ r.kind = "charge" /\ r.pc = "ch_subfund"
    /\ IF Exists(r.ch)
       THEN /\ challenges' = [challenges EXCEPT ![r.ch].isFunded = TRUE,
                                                ![r.ch].status = "ACTIVE"]
            /\ Respond(s, 200)
       ELSE /\ UNCHANGED challenges
            /\ Respond(s, 500)
    /\ UNCHANGED <<payments, charges, requests, submissions, payouts>>

\* whopSDK.createPayment: the processor opens a charge, or the call throws.
\* The metadata sent names the challenge but no local user.
ChargeCreateWhopPayment(s) ==
    LET r == inflight[s]
        totalAmount == calculateFundingAmount(challenges[r.ch].rewardAmount,
                                              challenges[r.ch].buyoutFeePaid)
        charge == [challengeId |-> r.ch, userId |-> "",
                   user_id |-> WhopIdOf(r.user),
                   amount |-> totalAmount, outcomes |-> {}]
    IN
    /\ r.kind = "charge" /\ r.pc = "ch_whop"
    /\ \/ /\ charges' = Append(charges, charge)
          /\ inflight' = [inflight EXCEPT ![s] =
                 [@ EXCEPT !.pc = "ch_funding", !.pid = Len(charges) + 1]]
          /\ UNCHANGED response
       \/ /\ UNCHANGED charges
          /\ Respond(s, 500)
    /\ UNCHANGED <<challenges, payments, requests, submissions, payouts>>

\* prisma.payment.create of the PENDING FUNDING row
ChargeCreateFunding(s) ==
    LET r == inflight[s]
        totalAmount == calculateFundingAmount(challenges[r.ch].rewardAmount,
                                              challenges[r.ch].buyoutFeePaid)
    IN
    /\ r.kind = "charge" /\ r.pc = "ch_funding"
    /\ IF Exists(r.ch)
       THEN /\ payments' = Append(payments,
                   Payment(r.ch, r.user, "FUNDING", "WHOP", totalAmount, "PENDING",
                           r.pid, 0))
            /\ Goto(s, "ch_fee")
       ELSE /\ UNCHANGED payments
            /\ Respond(s, 500)
    /\ UNCHANGED <<challenges, charges, requests, submissions, payouts>>

\* prisma.payment.create of the PENDING PLATFORM_FEE or BUYOUT_FEE row
ChargeCreateFee(s) ==
    LET r == inflight[s] IN
    /\ r.kind = "charge" /\ r.pc = "ch_fee"
    /\ IF Exists(r.ch)
       THEN /\ payments' = Append(payments,
                   IF ~challenges[r.ch].buyoutFeePaid
                   THEN Payment(r.ch, r.user, "PLATFORM_FEE", "WHOP",
                                challenges[r.ch].platformFee, "PENDING", 0, 0)
                   ELSE Payment(r.ch, r.user, "BUYOUT_FEE", "WHOP",
                                CHARGE_ROUTE_BUYOUT_FEE, "PENDING", 0, 0))
            /\ Respond(s, 200)
       ELSE /\ UNCHANGED payments
            /\ Respond(s, 500)
    /\ UNCHANGED <<challenges, charges, requests, submissions, payouts>>

(* ---------------------- GET /api/charge?paymentId ---------------------- *)

\* the request reaches the handler: getAuthenticatedUser
ConfirmArrive(s) ==
    /\ Free(s)
    /\ requests < MaxRequests
    /\ \E caller \in LocalUsers \cup {""}, paymentId \in 0..Len(charges) :
          IF paymentId = 0
          THEN /\ response' = [kind |-> "confirm", status |-> 400]
               /\ UNCHANGED inflight
          ELSE IF caller = ""
          THEN /\ response' = [kind |-> "confirm", status |-> 401]
               /\ UNCHANGED inflight
          ELSE /\ inflight' = [inflight EXCEPT ![s] =
                      [Idle EXCEPT !.kind = "confirm", !.pc = "cf_whop",
                                   !.pid = paymentId, !.user = caller]]
               /\ UNCHANGED response
    /\ requests' = requests + 1
    /\ UNCHANGED <<challenges, payments, charges, submissions, payouts>>

\* whopSDK.getPayment: the processor's status of the charge, or the call throws
ConfirmGetPayment(s) ==
    LET r == inflight[s] IN
    /\ r.kind = "confirm" /\ r.pc = "cf_whop"
    /\ \/ /\ inflight' = [inflight EXCEPT ![s] =
                 [@ EXCEPT !.pc = "cf_find",
                           !.completed = Settled(r.pid)]]
          /\ UNCHANGED response
       \/ Respond(s, 500)
    /\ UNCHANGED <<challenges, payments, charges, requests, submissions, payouts>>

\* rows prisma.payment.findFirst({stripePaymentIntentId, userId}) may return
LocalPayments(paymentId, userId) ==
    {i \in DOMAIN payments : /\ payments[i].stripePaymentIntentId = paymentId
                             /\ payments[i].userId = userId}

\* prisma.payment.findFirst and the test that follows it
ConfirmFindLocal(s) ==
    LET r == inflight[s] IN
    /\ r.kind = "confirm" /\ r.pc = "cf_find"
    /\ IF LocalPayments(r.pid, r.user) = {} THEN Respond(s, 404)
       ELSE \E i \in LocalPayments(r.pid, r.user) :
               IF r.completed /\ payments[i].status = "PENDING"
               THEN /\ inflight' = [inflight EXCEPT ![s] =
                           [@ EXCEPT !.pc = "cf_payment", !.lp = i,
                                     !.ch = payments[i].challengeId]]
                    /\ UNCHANGED response
               ELSE Respond(s, 200)
    /\ UNCHANGED <<challenges, payments, charges, requests, submissions, payouts>>

\* prisma.payment.update of the row found
ConfirmUpdatePayment(s) ==
    LET r == inflight[s] IN
    /\ r.kind = "confirm" /\ r.pc = "cf_payment"
    /\ payments' = [payments EXCEPT ![r.lp].status = "COMPLETED"]
    /\ Goto(s, "cf_many")
    /\ UNCHANGED <<challenges, charges, requests, submissions, payouts>>

\* prisma.payment.updateMany of every PENDING row of the challenge
ConfirmUpdateMany(s) ==
    LET r == inflight[s] IN
    /\ r.kind = "confirm" /\ r.pc = "cf_many"
    /\ payments' = [i \in DOMAIN payments |->
                      IF payments[i].challengeId = r.ch /\ payments[i].status = "PENDING"
                      THEN [payments[i] EXCEPT !.status = "COMPLETED"]
                      ELSE payments[i]]
    /\ Goto(s, "cf_challenge")
    /\ UNCHANGED <<challenges, charges, requests, submissions, payouts>>

\* prisma.challenge.update
ConfirmUpdateChallenge(s) ==
    LET r == inflight[s] IN
    /\ r.kind = "confirm" /\ r.pc = "cf_challenge"
    /\ challenges' = [challenges EXCEPT ![r.ch].isFunded = TRUE,
                                        ![r.ch].status = "ACTIVE"]
    /\ Respond(s, 200)
    /\ UNCHANGED <<payments, charges, requests, submissions, payouts>>

(* -------------------- POST /api/challenges/[id]/fund ------------------- *)

\* the request reaches the handler: getAuthenticatedUser, request.json()
FundArrive(s) ==
    /\ Free(s)
    /\ requests < MaxRequests
    /\ \E caller \in LocalUsers \cup {""}, c \in ChallengeIds \cup {UnknownChallenge},
          fundingMethod \in {"subscription", "stripe"} :
          IF caller = ""
          THEN /\ response' = [kind |-> "fund", status |-> 401]
               /\ UNCHANGED inflight
          ELSE IF fundingMethod # "subscription"
          THEN /\ response' = [kind |-> "fund", status |-> 400]
               /\ UNCHANGED inflight
          ELSE /\ inflight' = [inflight EXCEPT ![s] =
                      [Idle EXCEPT !.kind = "fund", !.pc = "fd_find",
                                   !.ch = c, !.user = caller]]
               /\ UNCHANGED response
    /\ requests' = requests + 1
    /\ UNCHANGED <<challenges, payments, charges, submissions, payouts>>

\* prisma.challenge.findUnique and the checks that follow it
FundFindChallenge(s) ==
    LET r == inflight[s] IN
    /\ r.kind = "fund" /\ r.pc = "fd_find"
    /\ IF ~Exists(r.ch) THEN Respond(s, 404)
       ELSE IF challenges[r.ch].creatorId # r.user THEN Respond(s, 403)
       ELSE IF challenges[r.ch].isFunded THEN Respond(s, 400)
       ELSE IF challenges[r.ch].rewardType # "SUBSCRIPTION" THEN Respond(s, 400)
       ELSE Goto(s, "fd_access")
    /\ UNCHANGED <<challenges, payments, charges, requests, submissions, payouts>>

\* whopSDK.checkUserCompanyAccess: granted, refused, or the call throws
FundCheckAccess(s) ==
    LET r == inflight[s] IN
    /\ r.kind = "fund" /\ r.pc = "fd_access"
    /\ \/ Goto(s, "fd_pay")
       \/ Respond(s, 403)
       \/ Respond(s, 500)
    /\ UNCHANGED <<challenges, payments, charges, requests, submissions, payouts>>

\* prisma.payment.create
FundCreatePayment(s) ==
    LET r == inflight[s] IN
    /\ r.kind = "fund" /\ r.pc = "fd_pay"
    /\ payments' = Append(payments,
           Payment(r.ch, r.user, "FUNDING", "SUBSCRIPTION", 0, "COMPLETED", 0, 0))
    /\ Goto(s, "fd_fund")
    /\ UNCHANGED <<challenges, charges, requests, submissions, payouts>>

\* prisma.challenge.update
FundUpdateChallenge(s) ==
    LET r == inflight[s] IN
    /\ r.kind = "fund" /\ r.pc = "fd_fund"
    /\ challenges' = [challenges EXCEPT ![r.ch].isFunded = TRUE,
                                        ![r.ch].status = "ACTIVE"]
    /\ Respond(s, 200)
    /\ UNCHANGED <<payments, charges, requests, submissions, payouts>>

(* -------------------------- POST /api/challenges ----------------------- *)

\* user.is_creator
IsCreator(u) == u = Creator

\* Math.abs(a - b)
Abs(x) == IF x < 0 THEN -x ELSE x

\* fee breakdowns a client may send with rewardAmount a and buyoutFeePaid b: none;
\* {}; the policy's numbers; numbers half a cent or two cents off; the payout
\* with the fee deducted
FeeBreakdowns(a, b) ==
    LET fee == calculatePlatformFee(a, b)
        numbers(p, n) == [given |-> "numbers", platformFee |-> p, netPayout |-> n]
    IN  {NoFeeCalculation,
         [NoFeeCalculation EXCEPT !.given = "empty"],
         numbers(fee.platformFee, fee.netPayout),
         numbers(fee.platformFee + 5, fee.netPayout),
         numbers(fee.platformFee + 20, fee.netPayout),
         numbers(fee.platformFee, a - fee.platformFee)}

\* reward amounts a creation request names: none, $1.99, $2, $20, $100
CreateAmounts == {0, 1990, 2000, 20000} \cup RewardAmounts

CreateRequests ==
    LET usd(a, b, fc) == [caller |-> Creator, complete |-> TRUE, rewardType |-> "USD",
                          rewardAmount |-> a, buyoutFeePaid |-> b,
                          rewardSubscriptionId |-> FALSE, feeCalculation |-> fc]
        exact(a, b) == [given |-> "numbers",
                        platformFee |-> calculatePlatformFee(a, b).platformFee,
                        netPayout |-> calculatePlatformFee(a, b).netPayout]
    IN  {[usd(2000, FALSE, exact(2000, FALSE)) EXCEPT !.caller = ""],
         [usd(2000, FALSE, exact(2000, FALSE)) EXCEPT !.caller = "u2"],
         [usd(2000, FALSE, exact(2000, FALSE)) EXCEPT !.complete = FALSE],
         [usd(0, FALSE, NoFeeCalculation) EXCEPT !.rewardType = "SUBSCRIPTION"],
         [usd(0, FALSE, NoFeeCalculation) EXCEPT !.rewardType = "SUBSCRIPTION",
                                                 !.rewardSubscriptionId = TRUE]}
        \cup {usd(a, FALSE, exact(a, FALSE)) : a \in CreateAmounts}
        \cup {usd(a, TRUE, exact(a, TRUE)) : a \in RewardAmounts \cup {1990}}
        \cup {usd(1990, FALSE, [NoFeeCalculation EXCEPT !.given = "empty"])}
        \cup UNION {{usd(a, FALSE, fc) : fc \in FeeBreakdowns(a, FALSE)} :
                       a \in RewardAmounts}

\* the difference the fee check tolerates: 0.01
FeeTolerance == 10

\* a validation that only wants a positive reward
validateMinimumRewardPositive(rewardAmount) == rewardAmount > 0

validateMinimumReward(rewardAmount) == rewardAmount >= MIN_PLATFORM_FEE

\* the test of feeCalculation against recalculatedFees; a comparison with a
\* number that is not there (NaN > 0.01) is false
FeeMismatch(feeCalculation, recalculatedFees) ==
    \/ feeCalculation.given = "none"
    \/ /\ feeCalculation.given = "numbers"
       /\ \/ Abs(feeCalculation.platformFee - recalculatedFees.platformFee) > FeeTolerance
          \/ Abs(feeCalculation.netPayout - recalculatedFees.netPayout) > FeeTolerance

\* the ids prisma gives the rows it creates, in order of creation
NewIds == <<"c1", "c2", "c3", "c4", "c5", "c6">>

\* the request reaches the handler: getAuthenticatedUser, request.json()
CreateArriveFrom(s, bodies) ==
    /\ Free(s)
    /\ requests < MaxRequests
    /\ \E body \in bodies :
          inflight' = [inflight EXCEPT ![s] =
                          [Idle EXCEPT !.kind = "create", !.pc = "cr_validate",
                                       !.user = body.caller, !.create = body]]
    /\ requests' = requests + 1
    /\ UNCHANGED <<challenges, payments, charges, response, submissions, payouts>>

CreateArrive(s) == CreateArriveFrom(s, CreateRequests)

\* the checks made before the row is created
CreateValidate(s) ==
    LET r    == inflight[s]
        data == r.create
        recalculatedFees == calculatePlatformFee(data.rewardAmount, data.buyoutFeePaid)
    IN
    /\ r.kind = "create" /\ r.pc = "cr_validate"
    /\ IF data.caller = "" THEN Respond(s, 401)
       ELSE IF ~IsCreator(data.caller) THEN Respond(s, 403)
       ELSE IF ~data.complete THEN Respond(s, 400)
       ELSE IF data.rewardType \in {"USD", "USDC"}
            THEN IF data.rewardAmount = 0 THEN Respond(s, 400)
                 ELSE IF ~validateMinimumReward(data.rewardAmount) THEN Respond(s, 400)
                 ELSE IF FeeMismatch(data.feeCalculation, recalculatedFees)
                      THEN Respond(s, 400)
                 ELSE /\ inflight' = [inflight EXCEPT ![s] =
                             [@ EXCEPT !.pc = "cr_create", !.fees = recalculatedFees]]
                      /\ UNCHANGED response
       ELSE IF data.rewardType = "SUBSCRIPTION" /\ ~data.rewardSubscriptionId
            THEN Respond(s, 400)
       ELSE Goto(s, "cr_create")
    /\ UNCHANGED <<challenges, payments, charges, requests, submissions, payouts>>

\* prisma.challenge.create: the row is made of the request's values
CreateChallenge(s) ==
    LET r    == inflight[s]
        data == r.create
        fc   == data.feeCalculation
        id   == NewIds[Cardinality(DOMAIN challenges) + 1]
        row  == [creatorId     |-> r.user,
                 rewardType    |-> data.rewardType,
                 rewardAmount  |-> data.rewardAmount,
                 platformFee   |-> IF fc.given = "numbers" THEN fc.platformFee ELSE 0,
                 buyoutFeePaid |-> data.buyoutFeePaid,
                 netPayout     |-> IF fc.given = "numbers" /\ fc.netPayout # 0
                                   THEN fc.netPayout ELSE data.rewardAmount,
                 status        |-> "DRAFT",
                 isFunded      |-> FALSE,
                 approvedSubmissions |-> 0,
                 deleted       |-> FALSE]
    IN
    /\ r.kind = "create" /\ r.pc = "cr_create"
    /\ Cardinality(DOMAIN challenges) < Len(NewIds)
    /\ challenges' = [c \in DOMAIN challenges \cup {id} |->
                         IF c = id THEN row ELSE challenges[c]]
    /\ Respond(s, 201)
    /\ UNCHANGED <<payments, charges, requests, submissions, payouts>>

(* -------------------------- POST /api/submissions ---------------------- *)

\* prisma.submission.create: the row appended to the submissions table
Submission(challengeId, userId) ==
    [challengeId |-> challengeId, userId |-> userId, status |-> "PENDING"]

\* prisma.submission.findUnique by challengeId_userId
existingSubmission(challengeId, userId) ==
    {i \in DOMAIN submissions : /\ submissions[i].challengeId = challengeId
                                /\ submissions[i].userId = userId}

\* a submissions table without the unique index
UniqueSubmissionUnchecked(challengeId, userId) == TRUE

\* @@unique([challengeId, userId]): an insert of a second row for the pair throws
UniqueSubmission(challengeId, userId) ==
    existingSubmission(challengeId, userId) = {}

\* the requests sent: by nobody, by each user for the challenge, for a challenge
\* that does not exist, and without the required fields
SubmitRequests ==
    {[caller |-> "", challengeId |-> "c1"],
     [caller |-> "u2", challengeId |-> "c1"],
     [caller |-> "u1", challengeId |-> "c1"],
     [caller |-> "u2", challengeId |-> UnknownChallenge],
     [caller |-> "u2", challengeId |-> ""]}

\* the request reaches the handler: getAuthenticatedUser, request.json(), and
\* the test of the required fields
SubmitArrive(s) ==
    /\ Free(s)
    /\ requests < MaxRequests
    /\ \E body \in SubmitRequests :
          IF body.caller = ""
          THEN /\ response' = [kind |-> "submit", status |-> 401]
               /\ UNCHANGED inflight
          ELSE IF body.challengeId = ""
          THEN /\ response' = [kind |-> "submit", status |-> 400]
               /\ UNCHANGED inflight
          ELSE /\ inflight' = [inflight EXCEPT ![s] =
                      [Idle EXCEPT !.kind = "submit", !.pc = "sb_find",
                                   !.ch = body.challengeId, !.user = body.caller]]
               /\ UNCHANGED response
    /\ requests' = requests + 1
    /\ UNCHANGED <<challenges, payments, charges, submissions, payouts>>

\* a handler that takes submissions for a challenge of any status
SubmitFindChallengeAnyStatus(s) ==
    LET r == inflight[s] IN
    /\ r.kind = "submit" /\ r.pc = "sb_find"
    /\ IF ~Exists(r.ch) THEN Respond(s, 404) ELSE Goto(s, "sb_existing")
    /\ UNCHANGED <<challenges, payments, charges, requests, submissions, payouts>>

\* prisma.challenge.findUnique and the test of its status
SubmitFindChallenge(s) ==
    LET r == inflight[s] IN
    /\ r.kind = "submit" /\ r.pc = "sb_find"
    /\ IF ~Exists(r.ch) THEN Respond(s, 404)
       ELSE IF challenges[r.ch].status # "ACTIVE" THEN Respond(s, 400)
       ELSE Goto(s, "sb_existing")
    /\ UNCHANGED <<challenges, payments, charges, requests, submissions, payouts>>

\* prisma.submission.findUnique: has the user submitted already
SubmitFindExisting(s) ==
    LET r == inflight[s] IN
    /\ r.kind = "submit" /\ r.pc = "sb_existing"
    /\ IF existingSubmission(r.ch, r.user) # {} THEN Respond(s, 400)
       ELSE Goto(s, "sb_create")
    /\ UNCHANGED <<challenges, payments, charges, requests, submissions, payouts>>

\* prisma.submission.create: throws on the unique index or the foreign key, and
\* the handler's catch answers 500
SubmitCreate(s) ==
    LET r == inflight[s] IN
    /\ r.kind = "submit" /\ r.pc = "sb_create"
    /\ IF UniqueSubmission(r.ch, r.user) /\ Exists(r.ch)
       THEN /\ submissions' = Append(submissions, Submission(r.ch, r.user))
            /\ Respond(s, 201)
       ELSE /\ UNCHANGED submissions
            /\ Respond(s, 500)
    /\ UNCHANGED <<challenges, payments, charges, requests, payouts>>

(* ------- PATCH /api/challenges/[id]/submissions/[submissionId] --------- *)

\* the requests sent; the submission named is the first row of the table or a
\* row that does not exist
ReviewRequests ==
    {[caller |-> "", challengeId |-> "c1", submissionId |-> 1, action |-> "approve"],
     [caller |-> "u1", challengeId |-> "c1", submissionId |-> 1, action |-> ""],
     [caller |-> "u1", challengeId |-> "c1", submissionId |-> 1, action |-> "approve"],
     [caller |-> "u1", challengeId |-> "c1", submissionId |-> 1, action |-> "reject"],
     [caller |-> "u2", challengeId |-> "c1", submissionId |-> 1, action |-> "approve"],
     [caller |-> "u1", challengeId |-> "c2", submissionId |-> 1, action |-> "approve"],
     [caller |-> "u1", challengeId |-> UnknownChallenge, submissionId |-> 1,
      action |-> "approve"],
     [caller |-> "u1", challengeId |-> "c1", submissionId |-> 2, action |-> "reject"]}

\* the request reaches the handler: getAuthenticatedUser, request.json(), and
\* the test of the action
ReviewArrive(s) ==
    /\ Free(s)
    /\ requests < MaxRequests
    /\ \E body \in ReviewRequests :
          IF body.caller = ""
          THEN /\ response' = [kind |-> "review", status |-> 401]
               /\ UNCHANGED inflight
          ELSE IF body.action \notin {"approve", "reject"}
          THEN /\ response' = [kind |-> "review", status |-> 400]
               /\ UNCHANGED inflight
          ELSE /\ inflight' = [inflight EXCEPT ![s] =
                      [Idle EXCEPT !.kind = "review", !.pc = "rv_challenge",
                                   !.ch = body.challengeId, !.user = body.caller,
                                   !.sub = body.submissionId,
                                   !.action = body.action]]
               /\ UNCHANGED response
    /\ requests' = requests + 1
    /\ UNCHANGED <<challenges, payments, charges, submissions, payouts>>

\* prisma.challenge.findUnique and the test of the creator
ReviewFindChallenge(s) ==
    LET r == inflight[s] IN
    /\ r.kind = "review" /\ r.pc = "rv_challenge"
    /\ IF ~Exists(r.ch) THEN Respond(s, 404)
       ELSE IF challenges[r.ch].creatorId # r.user THEN Respond(s, 403)
       ELSE Goto(s, "rv_submission")
    /\ UNCHANGED <<challenges, payments, charges, requests, submissions, payouts>>

\* prisma.submission.findUnique and the tests of its challenge and status
ReviewFindSubmission(s) ==
    LET r == inflight[s] IN
    /\ r.kind = "review" /\ r.pc = "rv_submission"
    /\ IF r.sub \notin DOMAIN submissions THEN Respond(s, 404)
       ELSE IF submissions[r.sub].challengeId # r.ch THEN Respond(s, 400)
       ELSE IF submissions[r.sub].status # "PENDING" THEN Respond(s, 400)
       ELSE Goto(s, "rv_update")
    /\ UNCHANGED <<challenges, payments, charges, requests, submissions, payouts>>

\* prisma.$transaction: submission.update by id and, on approve,
\* challenge.update incrementing approvedSubmissions
ReviewTransaction(s) ==
    LET r         == inflight[s]
        newStatus == IF r.action = "approve" THEN "APPROVED" ELSE "REJECTED"
    IN
    /\ r.kind = "review" /\ r.pc = "rv_update"
    /\ IF r.sub \in DOMAIN submissions /\ (r.action = "approve" => Exists(r.ch))
       THEN /\ submissions' = [submissions EXCEPT ![r.sub].status = newStatus]
            /\ challenges' =
                  IF r.action = "approve"
                  THEN [challenges EXCEPT ![r.ch].approvedSubmissions = @ + 1]
                  ELSE challenges
            /\ Respond(s, 200)
       ELSE /\ UNCHANGED <<submissions, challenges>>
            /\ Respond(s, 500)
    /\ UNCHANGED <<payments, charges, requests, payouts>>

(* ---------------------- processApprovedSubmission ---------------------- *)

\* a bound on the readings of Date.now()
MaxClock == 2

Clock == 1..MaxClock

\* PayoutResult
Success == [success |-> TRUE, error |-> ""]

Failure(error) == [success |-> FALSE, error |-> error]

\* idempotenceKey: `payout-${submissionId}-${Date.now()}`
idempotenceKey(submissionId, now) == <<"payout", submissionId, now>>

\* the function returns payoutResult to its caller
Return(s, payoutResult) ==
    /\ response' = [kind |-> "payout", success |-> payoutResult.success,
                    error |-> payoutResult.error]
    /\ inflight' = [inflight EXCEPT ![s] = Idle]

\* a payout without the test of payoutResult.success
AfterPayoutUntested(s, payoutResult) == Goto(s, "po_paid")

\* after the payout call: `if (payoutResult.success)` goes on to the two
\* writes, and a failure is returned as it is
AfterPayout(s, payoutResult) ==
    IF payoutResult.success THEN Goto(s, "po_paid") ELSE Return(s, payoutResult)

\* processApprovedSubmission is called for a submission of the table or for an
\* id that names no row
PayoutArrive(s) ==
    /\ Free(s)
    /\ requests < MaxRequests
    /\ \E submissionId \in 1..(Len(submissions) + 1) :
          inflight' = [inflight EXCEPT ![s] =
              [Idle EXCEPT !.kind = "payout", !.pc = "po_find",
                           !.sub = submissionId]]
    /\ requests' = requests + 1
    /\ UNCHANGED <<challenges, payments, charges, response, submissions, payouts>>

\* prisma.submission.findUnique with its challenge and user, and the switch on
\* the challenge's rewardType
PayoutFindSubmission(s) ==
    LET r == inflight[s] IN
    /\ r.kind = "payout" /\ r.pc = "po_find"
    /\ IF r.sub \notin DOMAIN submissions
       THEN Return(s, Failure("Submission not found"))
       ELSE /\ inflight' = [inflight EXCEPT ![s] =
                   [@ EXCEPT !.pc = IF challenges[submissions[r.sub].challengeId].rewardType
                                       = "SUBSCRIPTION"
                                    THEN "po_grant" ELSE "po_ledger",
                             !.ch = submissions[r.sub].challengeId,
                             !.user = submissions[r.sub].userId]]
            /\ UNCHANGED response
    /\ UNCHANGED <<challenges, payments, charges, requests, submissions, payouts>>

\* payoutUSD: whopSdk.companies.getCompanyLedgerAccount returns the ledger
\* account, or returns none or throws and payoutUSD returns a failure
PayoutLedgerAccount(s) ==
    LET r == inflight[s] IN
    /\ r.kind = "payout" /\ r.pc = "po_ledger"
    /\ \/ Goto(s, "po_pay")
       \/ AfterPayout(s, Failure("Company ledger account not found"))
    /\ UNCHANGED <<challenges, payments, charges, requests, submissions, payouts>>

\* payoutUSD: whopSdk.payments.payUser.  The processor executes a transfer
\* unless it has seen the idempotenceKey, or the call throws.
PayoutPayUser(s) ==
    LET r == inflight[s] IN
    /\ r.kind = "payout" /\ r.pc = "po_pay"
    /\ \/ \E now \in Clock :
             LET key == idempotenceKey(r.sub, now) IN
             /\ payouts' = IF \E i \in DOMAIN payouts : payouts[i].key = key
                           THEN payouts
                           ELSE Append(payouts,
                                       [submissionId |-> r.sub,
                                        destinationId |-> WhopIdOf(r.user),
                                        amount |-> challenges[r.ch].rewardAmount,
                                        key |-> key])
             /\ AfterPayout(s, Success)
       \/ /\ UNCHANGED payouts
          /\ AfterPayout(s, Failure("payUser failed"))
    /\ UNCHANGED <<challenges, payments, charges, requests, submissions>>

\* grantSubscriptionAccess: whopSdk.payments.createCheckoutSession for the plan,
\* which carries no idempotence key, or the call throws
PayoutGrantAccess(s) ==
    LET r == inflight[s] IN
    /\ r.kind = "payout" /\ r.pc = "po_grant"
    /\ \/ /\ payouts' = Append(payouts,
                               [submissionId |-> r.sub,
                                destinationId |-> WhopIdOf(r.user),
                                amount |-> 0, key |-> <<>>])
          /\ AfterPayout(s, Success)
       \/ /\ UNCHANGED payouts
          /\ AfterPayout(s, Failure("createCheckoutSession failed"))
    /\ UNCHANGED <<challenges, payments, charges, requests, submissions>>

\* prisma.submission.update: status PAID
PayoutMarkPaid(s) ==
    LET r == inflight[s] IN
    /\ r.kind = "payout" /\ r.pc = "po_paid"
    /\ submissions' = [submissions EXCEPT ![r.sub].status = "PAID"]
    /\ Goto(s, "po_record")
    /\ UNCHANGED <<challenges, payments, charges, requests, payouts>>

\* prisma.payment.create of the COMPLETED PAYOUT row, and the return of the
\* successful payoutResult
PayoutRecordPayment(s) ==
    LET r   == inflight[s]
        row == [Payment(r.ch, r.user, "PAYOUT", "WHOP",
                        challenges[r.ch].rewardAmount, "COMPLETED", 0, 0)
                   EXCEPT !.submissionId = r.sub]
    IN
    /\ r.kind = "payout" /\ r.pc = "po_record"
    /\ payments' = Append(payments, row)
    /\ Return(s, Success)
    /\ UNCHANGED <<challenges, charges, requests, submissions, payouts>>

(* ---------------------- DELETE /api/challenges/[id] -------------------- *)

DeleteRequests ==
    {[caller |-> "", challengeId |-> "c1"],
     [caller |-> "u1", challengeId |-> "c1"],
     [caller |-> "u2", challengeId |-> "c1"],
     [caller |-> "u1", challengeId |-> UnknownChallenge]}

\* the request reaches the handler: getAuthenticatedUser
DeleteArrive(s) ==
    /\ Free(s)
    /\ requests < MaxRequests
    /\ \E body \in DeleteRequests :
          IF body.caller = ""
          THEN /\ response' = [kind |-> "delete", status |-> 401]
               /\ UNCHANGED inflight
          ELSE /\ inflight' = [inflight EXCEPT ![s] =
                      [Idle EXCEPT !.kind = "delete", !.pc = "dl_find",
                                   !.ch = body.challengeId, !.user = body.caller]]
               /\ UNCHANGED response
    /\ requests' = requests + 1
    /\ UNCHANGED <<challenges, payments, charges, submissions, payouts>>

\* prisma.challenge.findUnique and the tests of the creator and of the status
DeleteFindChallenge(s) ==
    LET r == inflight[s] IN
    /\ r.kind = "delete" /\ r.pc = "dl_find"
    /\ IF ~Exists(r.ch) THEN Respond(s, 404)
       ELSE IF challenges[r.ch].creatorId # r.user THEN Respond(s, 403)
       ELSE IF challenges[r.ch].status # "DRAFT" THEN Respond(s, 400)
       ELSE Goto(s, "dl_delete")
    /\ UNCHANGED <<challenges, payments, charges, requests, submissions, payouts>>

\* onDelete: Cascade on Payment.challenge and on Submission.challenge: the rows
\* that reference the challenge go with it
Cascade(rows, challengeId) ==
    SelectSeq(rows, LAMBDA row : row.challengeId # challengeId)

\* prisma.challenge.delete; it throws if the row is gone already
DeleteChallenge(s) ==
    LET r == inflight[s] IN
    /\ r.kind = "delete" /\ r.pc = "dl_delete"
    /\ IF Exists(r.ch)
       THEN /\ challenges' = [challenges EXCEPT ![r.ch].deleted = TRUE]
            /\ payments' = Cascade(payments, r.ch)
            /\ submissions' = Cascade(submissions, r.ch)
            /\ Respond(s, 200)
       ELSE /\ UNCHANGED <<challenges, payments, submissions>>
            /\ Respond(s, 500)
    /\ UNCHANGED <<charges, requests, payouts>>

(* ------------------------------- faults -------------------------------- *)

\* the program points at which a database call is pending
DbPcs ==
    {"hps_find", "hps_create", "hps_funded", "hps_active", "hpf_find", "cs_find",
     "ch_find", "ch_subpay", "ch_subfund", "ch_funding", "ch_fee",
     "cf_find", "cf_payment", "cf_many", "cf_challenge",
     "fd_find", "fd_pay", "fd_fund", "cr_create",
     "sb_find", "sb_existing", "sb_create",
     "rv_challenge", "rv_submission", "rv_update",
     "po_find", "po_paid", "po_record", "dl_find", "dl_delete"}

\* a database call throws.  handlePaymentSuccess and handlePaymentFailed catch
\* and log, so the webhook still answers 200; processApprovedSubmission catches
\* and returns a failure; the other handlers answer 500.
DbFault(s) ==
    /\ inflight[s].pc \in DbPcs
    /\ IF inflight[s].kind = "payout"
       THEN Return(s, Failure("database error"))
       ELSE Respond(s, IF inflight[s].kind = "webhook" THEN 200 ELSE 500)
    /\ UNCHANGED <<challenges, payments, charges, requests, submissions, payouts>>

(* ----------------------------- specification --------------------------- *)

Next ==
    \/ \E k \in 1..MaxRequests : ProcessorSettle(k)
    \/ \E s \in Slots : WebhookArrive(s)
    \/ \E s \in Slots : WebhookArriveSpelled(s)
    \/ \E s \in Slots : WebhookPOST(s)
    \/ \E s \in Slots : SuccessFindChallenge(s)
    \/ \E s \in Slots : SuccessCreatePayment(s)
    \/ \E s \in Slots : SuccessMarkFunded(s)
    \/ \E s \in Slots : SuccessActivate(s)
    \/ \E s \in Slots : FailedFindSession(s)
    \/ \E s \in Slots : CheckoutArrive(s)
    \/ \E s \in Slots : CheckoutFindChallenge(s)
    \/ \E s \in Slots : CheckoutChargeUser(s)
    \/ \E s \in Slots : ChargeArrive(s)
    \/ \E s \in Slots : ChargeFindChallenge(s)
    \/ \E s \in Slots : ChargeCheckAccess(s)
    \/ \E s \in Slots : ChargeSubscriptionPayment(s)
    \/ \E s \in Slots : ChargeSubscriptionFund(s)
    \/ \E s \in Slots : ChargeCreateWhopPayment(s)
    \/ \E s \in Slots : ChargeCreateFunding(s)
    \/ \E s \in Slots : ChargeCreateFee(s)
    \/ \E s \in Slots : ConfirmArrive(s)
    \/ \E s \in Slots : ConfirmGetPayment(s)
    \/ \E s \in Slots : ConfirmFindLocal(s)
    \/ \E s \in Slots : ConfirmUpdatePayment(s)
    \/ \E s \in Slots : ConfirmUpdateMany(s)
    \/ \E s \in Slots : ConfirmUpdateChallenge(s)
    \/ \E s \in Slots : FundArrive(s)
    \/ \E s \in Slots : FundFindChallenge(s)
    \/ \E s \in Slots : FundCheckAccess(s)
    \/ \E s \in Slots : FundCreatePayment(s)
    \/ \E s \in Slots : FundUpdateChallenge(s)
    \/ \E s \in Slots : DbFault(s)

Spec == Init /\ [][Next]_vars

\* the webhook endpoint alone, from the state in which the checkout has made a
\* charge for the creator's challenge that the payer has yet to confirm
WebhookInit ==
    /\ \E amt \in RewardAmounts :
          challenges = [c \in ChallengeIds |-> NewChallenge("USD", amt, FALSE)]
    /\ payments = <<>>
    /\ charges = <<[challengeId |-> "c1", userId |-> Creator,
                    user_id |-> WhopIdOf(Creator),
                    amount |-> 10 * amountInCents(OtherAmount),
                    outcomes |-> {}]>>
    /\ inflight = [s \in Slots |-> Idle]
    /\ requests = 0
    /\ response = [kind |-> "idle", status |-> 0]
    /\ submissions = <<>>
    /\ payouts = <<>>

WebhookNext ==
    \/ \E k \in 1..MaxRequests : ProcessorSettle(k)
    \/ \E s \in Slots : WebhookArrive(s)
    \/ \E s \in Slots : WebhookPOST(s)
    \/ \E s \in Slots : SuccessFindChallenge(s)
    \/ \E s \in Slots : SuccessCreatePayment(s)
    \/ \E s \in Slots : SuccessMarkFunded(s)
    \/ \E s \in Slots : SuccessActivate(s)
    \/ \E s \in Slots : FailedFindSession(s)
    \/ \E s \in Slots : DbFault(s)

WebhookSpec == WebhookInit /\ [][WebhookNext]_vars

\* challenge creation alone, from the empty database
CreateInit ==
    /\ challenges = [c \in {} |-> NoCreate]
    /\ payments = <<>>
    /\ charges = <<>>
    /\ inflight = [s \in Slots |-> Idle]
    /\ requests = 0
    /\ response = [kind |-> "idle", status |-> 0]
    /\ submissions = <<>>
    /\ payouts = <<>>

CreateNext ==
    \/ \E s \in Slots : CreateArrive(s)
    \/ \E s \in Slots : CreateValidate(s)
    \/ \E s \in Slots : CreateChallenge(s)
    \/ \E s \in Slots : DbFault(s)

CreateSpec == CreateInit /\ [][CreateNext]_vars

\* a step of the handler in slot s after its request arrived: the call it awaits
\* returns
HandlerStep(s) ==
    \/ WebhookPOST(s)
    \/ SuccessFindChallenge(s)
    \/ SuccessCreatePayment(s)
    \/ SuccessMarkFunded(s)
    \/ SuccessActivate(s)
    \/ FailedFindSession(s)
    \/ CheckoutFindChallenge(s)
    \/ CheckoutChargeUser(s)
    \/ ChargeFindChallenge(s)
    \/ ChargeCheckAccess(s)
    \/ ChargeSubscriptionPayment(s)
    \/ ChargeSubscriptionFund(s)
    \/ ChargeCreateWhopPayment(s)
    \/ ChargeCreateFunding(s)
    \/ ChargeCreateFee(s)
    \/ ConfirmGetPayment(s)
    \/ ConfirmFindLocal(s)
    \/ ConfirmUpdatePayment(s)
    \/ ConfirmUpdateMany(s)
    \/ ConfirmUpdateChallenge(s)
    \/ FundFindChallenge(s)
    \/ FundCheckAccess(s)
    \/ FundCreatePayment(s)
    \/ FundUpdateChallenge(s)

\* a request arrives at the handler that takes slot s
Arrive(s) ==
    \/ WebhookArrive(s)
    \/ WebhookArriveSpelled(s)
    \/ CheckoutArrive(s)
    \/ ChargeArrive(s)
    \/ ConfirmArrive(s)
    \/ FundArrive(s)

\* the behaviours in which no database call throws
FaultFreeNext ==
    \/ \E k \in 1..MaxRequests : ProcessorSettle(k)
    \/ \E s \in Slots : Arrive(s)
    \/ \E s \in Slots : HandlerStep(s)

\* The runtime resumes every suspended handler when the call it awaits
\* returns.  Nothing obliges a client or the processor to send a request, and the
\* program has no timer or background job, so arrivals are not fair.
LiveSpec == Init /\ [][FaultFreeNext]_vars /\ \A s \in Slots : WF_vars(HandlerStep(s))

\* the challenge as the direct funding grant leaves it: ACTIVE, funded, with
\* the COMPLETED FUNDING row of amount 0
GrantedChallenge == 
    [NewChallenge("SUBSCRIPTION", 0, FALSE) EXCEPT !.status = "ACTIVE",
                                                    !.isFunded = TRUE]

GrantPayment(c) == Payment(c, Creator, "FUNDING", "SUBSCRIPTION", 0, "COMPLETED", 0, 0)

\* submissions and their review, from the state in which the creator has two
\* funded challenges
SubmitInit ==
    /\ challenges = [c \in {"c1", "c2"} |-> GrantedChallenge]
    /\ payments = <<GrantPayment("c1"), GrantPayment("c2")>>
    /\ charges = <<>>
    /\ inflight = [s \in Slots |-> Idle]
    /\ requests = 0
    /\ response = [kind |-> "idle", status |-> 0]
    /\ submissions = <<>>
    /\ payouts = <<>>

SubmitNext ==
    \/ \E s \in Slots : SubmitArrive(s)
    \/ \E s \in Slots : SubmitFindChallenge(s)
    \/ \E s \in Slots : SubmitFindExisting(s)
    \/ \E s \in Slots : SubmitCreate(s)
    \/ \E s \in Slots : ReviewArrive(s)
    \/ \E s \in Slots : ReviewFindChallenge(s)
    \/ \E s \in Slots : ReviewFindSubmission(s)
    \/ \E s \in Slots : ReviewTransaction(s)
    \/ \E s \in Slots : DbFault(s)

SubmitSpec == SubmitInit /\ [][SubmitNext]_vars

\* payouts, from the state in which the creator has approved u2's submission to
\* a funded challenge
PayoutInit ==
    /\ \E rt \in RewardTypes, amt \in RewardAmounts :
          /\ challenges =
                [c \in ChallengeIds |->
                    IF rt = "SUBSCRIPTION"
                    THEN [GrantedChallenge EXCEPT !.approvedSubmissions = 1]
                    ELSE [NewChallenge(rt, amt, FALSE) EXCEPT
                             !.status = "ACTIVE", !.isFunded = TRUE,
                             !.approvedSubmissions = 1]]
          /\ charges =
                IF rt = "SUBSCRIPTION" THEN <<>>
                ELSE <<[challengeId |-> "c1", userId |-> Creator,
                        user_id |-> WhopIdOf(Creator),
                        amount |-> calculateFundingAmount(amt, FALSE),
                        outcomes |-> {"succeeded"}]>>
          /\ payments =
                IF rt = "SUBSCRIPTION" THEN <<GrantPayment("c1")>>
                ELSE <<Payment("c1", Creator, "FUNDING", "WHOP", amt, "COMPLETED", 0, 1)>>
    /\ inflight = [s \in Slots |-> Idle]
    /\ requests = 0
    /\ response = [kind |-> "idle", status |-> 0]
    /\ submissions = <<[Submission("c1", "u2") EXCEPT !.status = "APPROVED"]>>
    /\ payouts = <<>>

PayoutNext ==
    \/ \E s \in Slots : PayoutArrive(s)
    \/ \E s \in Slots : PayoutFindSubmission(s)
    \/ \E s \in Slots : PayoutLedgerAccount(s)
    \/ \E s \in Slots : PayoutPayUser(s)
    \/ \E s \in Slots : PayoutGrantAccess(s)
    \/ \E s \in Slots : PayoutMarkPaid(s)
    \/ \E s \in Slots : PayoutRecordPayment(s)
    \/ \E s \in Slots : DbFault(s)

PayoutSpec == PayoutInit /\ [][PayoutNext]_vars

\* the creation requests of the life of a challenge: a subscription challenge
\* and a USD challenge, both valid
LifecycleRequests ==
    {body \in CreateRequests :
        /\ body.caller = Creator /\ body.complete
        /\ \/ body.rewardType = "SUBSCRIPTION" /\ body.rewardSubscriptionId
           \/ /\ body.rewardAmount \in RewardAmounts /\ ~body.buyoutFeePaid
              /\ ~FeeMismatch(body.feeCalculation,
                              calculatePlatformFee(body.rewardAmount, FALSE))
              /\ body.feeCalculation.platformFee =
                    calculatePlatformFee(body.rewardAmount, FALSE).platformFee}

\* the life of a challenge from its creation: created, funded by the direct
\* grant, submitted to
LifecycleNext ==
    \/ \E s \in Slots : CreateArriveFrom(s, LifecycleRequests)
    \/ \E s \in Slots : CreateValidate(s)
    \/ \E s \in Slots : CreateChallenge(s)
    \/ \E s \in Slots : FundArrive(s)
    \/ \E s \in Slots : FundFindChallenge(s)
    \/ \E s \in Slots : FundCheckAccess(s)
    \/ \E s \in Slots : FundCreatePayment(s)
    \/ \E s \in Slots : FundUpdateChallenge(s)
    \/ \E s \in Slots : SubmitArrive(s)
    \/ \E s \in Slots : SubmitFindChallenge(s)
    \/ \E s \in Slots : SubmitFindExisting(s)
    \/ \E s \in Slots : SubmitCreate(s)
    \/ \E s \in Slots : DbFault(s)

LifecycleSpec == CreateInit /\ [][LifecycleNext]_vars

\* the deletion of a challenge against POST /api/charge, which writes the
\* PENDING rows of a DRAFT challenge
DeleteNext ==
    \/ \E s \in Slots : ChargeArrive(s)
    \/ \E s \in Slots : ChargeFindChallenge(s)
    \/ \E s \in Slots : ChargeCheckAccess(s)
    \/ \E s \in Slots : ChargeSubscriptionPayment(s)
    \/ \E s \in Slots : ChargeSubscriptionFund(s)
    \/ \E s \in Slots : ChargeCreateWhopPayment(s)
    \/ \E s \in Slots : ChargeCreateFunding(s)
    \/ \E s \in Slots : ChargeCreateFee(s)
    \/ \E s \in Slots : DeleteArrive(s)
    \/ \E s \in Slots : DeleteFindChallenge(s)
    \/ \E s \in Slots : DeleteChallenge(s)
    \/ \E s \in Slots : DbFault(s)

DeleteSpec == Init /\ [][DeleteNext]_vars

\* the statuses at which a challenge ends.  No handler of the sources writes
\* them; they are statuses of the schema that the dashboard and the profile read.
TerminalStatuses == {"COMPLETED", "CANCELLED"}

\* late notifications, from the state in which the challenge was funded by the
\* checkout charge 1, whose success event has been applied, and has been closed
\* since, while charge 2 of POST /api/charge, with its PENDING rows, is still
\* open
TerminalInit ==
    /\ \E amt \in RewardAmounts, st \in TerminalStatuses :
          /\ challenges = [c \in ChallengeIds |->
                              [NewChallenge("USD", amt, FALSE) EXCEPT
                                  !.status = st, !.isFunded = TRUE]]
          /\ charges = <<[challengeId |-> "c1", userId |-> Creator,
                          user_id |-> WhopIdOf(Creator),
                          amount |-> calculateFundingAmount(amt, FALSE),
                          outcomes |-> {"succeeded"}],
                         [challengeId |-> "c1", userId |-> "",
                          user_id |-> WhopIdOf(Creator),
                          amount |-> calculateFundingAmount(amt, FALSE),
                          outcomes |-> {}]>>
          /\ payments =
                <<Payment("c1", Creator, "FUNDING", "WHOP", amt, "COMPLETED", 0, 1),
                  Payment("c1", Creator, "FUNDING", "WHOP",
                          calculateFundingAmount(amt, FALSE), "PENDING", 2, 0),
                  Payment("c1", Creator, "PLATFORM_FEE", "WHOP",
                          calculatePlatformFee(amt, FALSE).platformFee, "PENDING", 0, 0)>>
    /\ inflight = [s \in Slots |-> Idle]
    /\ requests = 0
    /\ response = [kind |-> "idle", status |-> 0]
    /\ submissions = <<>>
    /\ payouts = <<>>

TerminalNext ==
    \/ \E k \in 1..MaxRequests : ProcessorSettle(k)
    \/ \E s \in Slots : WebhookArrive(s)
    \/ \E s \in Slots : WebhookPOST(s)
    \/ \E s \in Slots : SuccessFindChallenge(s)
    \/ \E s \in Slots : SuccessCreatePayment(s)
    \/ \E s \in Slots : SuccessMarkFunded(s)
    \/ \E s \in Slots : SuccessActivate(s)
    \/ \E s \in Slots : FailedFindSession(s)
    \/ \E s \in Slots : ConfirmArrive(s)
    \/ \E s \in Slots : ConfirmGetPayment(s)
    \/ \E s \in Slots : ConfirmFindLocal(s)
    \/ \E s \in Slots : ConfirmUpdatePayment(s)
    \/ \E s \in Slots : ConfirmUpdateMany(s)
    \/ \E s \in Slots : ConfirmUpdateChallenge(s)
    \/ \E s \in Slots : DbFault(s)

TerminalSpec == TerminalInit /\ [][TerminalNext]_vars

(* ------------------------------- claims -------------------------------- *)

\* the handler in slot s takes a step
Steps(s) == inflight'[s] # inflight[s]

\* the handler in slot s takes its last step
Ends(s) == inflight[s].kind # "idle" /\ inflight'[s].kind = "idle"

\* the request held in slot s carries the HMAC of "<t>.<body>" under the shared secret
Authentic(s) ==
    /\ inflight[s].sig.present
    /\ inflight[s].sig.t # ""
    /\ inflight[s].sig.v1 =
          [key |-> WHOP_WEBHOOK_SECRET, ts |-> inflight[s].sig.t, msg |-> inflight[s].body]

\* the body held in slot s is JSON with an event type and a data object
WellFormed(s) ==
    /\ inflight[s].body.json
    /\ inflight[s].body.hasData
    /\ inflight[s].body.action # "" \/ inflight[s].body.type # ""

IsSuccessEvent(s) == inflight[s].body.action = "payment_succeeded"

IsFailedEvent(s) == inflight[s].body.action = "payment_failed"

PendingFundingRows(c) ==
    {i \in DOMAIN payments : /\ payments[i].challengeId = c
                             /\ payments[i].type \in FundingTypes
                             /\ payments[i].status = "PENDING"}

\* C1: delivering the same payment_succeeded event twice leaves what one
\* delivery leaves: no second Payment row is created for the same external
\* payment id.
C1_OneRowPerReceipt ==
    \A i, j \in DOMAIN payments :
        (payments[i].whopReceiptId # 0
            /\ payments[i].whopReceiptId = payments[j].whopReceiptId) => i = j

\* C2: the funding payments of a challenge and the challenge itself change as
\* one group: as soon as any of them shows the success (a COMPLETED funding row
\* paid through the processor, isFunded, or a status other than DRAFT), all of
\* them do: a COMPLETED FUNDING row exists, no funding row is PENDING and the
\* challenge is isFunded and ACTIVE.
C2_AtomicGroup ==
    \A c \in ChallengeIds :
        LET completed == {i \in PaymentsOf(c) : /\ payments[i].method = "WHOP"
                                                /\ payments[i].type \in FundingTypes
                                                /\ payments[i].status = "COMPLETED"}
        IN  (challenges[c].rewardType # "SUBSCRIPTION"
               /\ (completed # {} \/ challenges[c].isFunded
                      \/ challenges[c].status # "DRAFT"))
            => /\ \E i \in completed : payments[i].type = "FUNDING"
               /\ PendingFundingRows(c) = {}
               /\ challenges[c].isFunded
               /\ challenges[c].status = "ACTIVE"

\* C3: in every state a challenge is isFunded exactly when its status is ACTIVE.
C3_FundedIffActive ==
    \A c \in ChallengeIds : challenges[c].isFunded <=> challenges[c].status = "ACTIVE"

\* the program points of a webhook handler that has not written yet
BeforeWrites == {"verify", "hps_find", "hps_create", "hpf_find"}

\* C4: once a FUNDING payment is COMPLETED or FAILED, an event of the same
\* external payment that is handled later is a no-op: a handler that finds the
\* payment terminal before its own first write changes no Payment or Challenge
\* row.
C4_TerminalNoOp ==
    [][\A s \in Slots :
          (/\ inflight[s].kind = "webhook"
           /\ inflight[s].pc \in BeforeWrites
           /\ Steps(s)
           /\ \E i \in DOMAIN payments :
                 /\ payments[i].type = "FUNDING"
                 /\ payments[i].status \in {"COMPLETED", "FAILED"}
                 /\ inflight[s].body.receipt_id # 0
                 /\ inflight[s].body.receipt_id \in
                       {payments[i].whopReceiptId, payments[i].stripePaymentIntentId})
          => (payments' = payments /\ challenges' = challenges)]_vars

\* C5: the funding transition of a challenge is applied once: when one
\* success notification (webhook delivery or status confirmation) has left the
\* challenge isFunded and ACTIVE with a COMPLETED FUNDING row, no step of
\* another handler of a success notification for the same challenge, however
\* the two interleaved, creates or changes a Payment row or writes the
\* challenge again.
C5_AppliedOnce ==
    [][\A s \in Slots :
          (/\ inflight[s].kind \in {"webhook", "confirm"}
           /\ Steps(s)
           /\ inflight[s].ch \in ChallengeIds
           /\ challenges[inflight[s].ch].isFunded
           /\ challenges[inflight[s].ch].status = "ACTIVE"
           /\ \E i \in PaymentsOf(inflight[s].ch) :
                 /\ payments[i].type = "FUNDING"
                 /\ payments[i].method = "WHOP"
                 /\ payments[i].status = "COMPLETED")
          => (payments' = payments /\ challenges' = challenges)]_vars

\* C6: no step of a handler working on an authentic, well-formed event whose
\* challenge has no PENDING FUNDING payment creates or changes a Payment or
\* Challenge row, and the handler answers 200.
C6_UnmatchedIgnored ==
    [][\A s \in Slots :
          (/\ inflight[s].kind = "webhook"
           /\ Steps(s)
           /\ Authentic(s) /\ WellFormed(s)
           /\ ~\E i \in PendingFundingRows(inflight[s].body.challengeId) :
                  payments[i].type = "FUNDING")
          => /\ payments' = payments
             /\ challenges' = challenges
             /\ Ends(s) => response'.status = 200]_vars

\* C7: a webhook request whose signature header is absent, or is not the HMAC
\* of its body under the shared secret, is answered 401 at once and changes no
\* Payment or Challenge row, whatever its body.
C7_BadSignatureRejected ==
    [][\A s \in Slots :
          (inflight[s].kind = "webhook" /\ Steps(s) /\ ~Authentic(s))
          => /\ Ends(s)
             /\ response' = [kind |-> "webhook", status |-> 401]
             /\ payments' = payments
             /\ challenges' = challenges]_vars

\* C7 witness: a request was answered 401 while a charge it could have
\* reported was settled and its challenge was still unfunded
C7_Witness ==
    /\ response = [kind |-> "webhook", status |-> 401]
    /\ \E k \in DOMAIN charges : Settled(k)
    /\ \E c \in ChallengeIds : ~challenges[c].isFunded

\* C8: when the handler of an authentic payment_failed event ends, every
\* funding payment of the event's challenge that was PENDING is FAILED and the
\* challenge is as it was.
C8_FailureMarksGroup ==
    [][\A s \in Slots :
          (/\ inflight[s].kind = "webhook"
           /\ Ends(s)
           /\ Authentic(s) /\ WellFormed(s) /\ IsFailedEvent(s))
          => /\ \A i \in PendingFundingRows(inflight[s].body.challengeId) :
                   payments'[i].status = "FAILED"
             /\ challenges' = challenges]_vars

\* the handler in slot s holds an authentic outcome event of a charge made for
\* challenge c
OutcomeDelivered(s, c) ==
    /\ inflight[s].kind = "webhook"
    /\ Authentic(s) /\ WellFormed(s)
    /\ IsSuccessEvent(s) \/ IsFailedEvent(s)
    /\ inflight[s].body.challengeId = c

\* C9: once the outcome event of a charge has been delivered, the funding
\* payments of its challenge that are PENDING are eventually all COMPLETED or
\* FAILED: none stays PENDING forever.  (A behaviour that used up the bound on
\* requests is not held against the program.)
C9_OutcomeResolvesPending ==
    \A c \in ChallengeIds :
        (PendingFundingRows(c) # {} /\ \E s \in Slots : OutcomeDelivered(s, c))
            ~> (PendingFundingRows(c) = {} \/ requests = MaxRequests)

\* the handler in slot s ends although the write it was suspended at did not happen
FailedToApply(s) ==
    \/ inflight[s].pc = "hps_find" /\ inflight[s].ch \in ChallengeIds
    \/ inflight[s].pc \in {"hps_create", "hps_funded"}

\* C10: the webhook endpoint answers 401 to an absent or invalid signature,
\* 400 to an authentic body that is not JSON or lacks its event type or data,
\* 200 to every authentic well-formed event, and never 200 when applying the
\* transition failed.
C10_ResponseCodes ==
    [][\A s \in Slots :
          (inflight[s].kind = "webhook" /\ Ends(s))
          => response'.status =
                IF ~Authentic(s) THEN 401
                ELSE IF ~WellFormed(s) THEN 400
                ELSE IF FailedToApply(s) THEN 500
                ELSE 200]_vars

\* the event type of the request held in slot s, read from `action` or from `type`
Discriminator(s) ==
    IF inflight[s].body.action # "" THEN inflight[s].body.action
    ELSE inflight[s].body.type

SuccessSpellings == {"payment_succeeded", "payment_success", "app_payment.succeeded"}

FailureSpellings == {"payment_failed", "app_payment.failed"}

CancellationSpellings == {"payment_canceled"}

\* C11: an authentic event whose discriminator, in `action` or in `type`, spells
\* success, failure or cancellation is given to the handler of that outcome:
\* success to handlePaymentSuccess, failure to handlePaymentFailed, and a
\* cancellation never ends at once in the unhandled branch.
C11_OutcomesDispatched ==
    [][\A s \in Slots :
          (/\ inflight[s].kind = "webhook" /\ inflight[s].pc = "verify"
           /\ Steps(s)
           /\ Authentic(s) /\ WellFormed(s)
           /\ inflight[s].body.challengeId # ""
           /\ inflight[s].body.userId # "" \/ inflight[s].body.user_id # "")
          => /\ Discriminator(s) \in SuccessSpellings
                  => inflight'[s].pc = "hps_find"
             /\ Discriminator(s) \in FailureSpellings
                  => inflight'[s].pc = "hpf_find"
             /\ Discriminator(s) \in CancellationSpellings
                  => ~Ends(s)]_vars

\* round(100 x amount): the amount in whole cents, as money
RoundToCents(amount) == 10 * ((amount + 5) \div 10)

\* C12: the amount of every charge made at the processor for a challenge is
\* round(100 x totalCost) cents, totalCost being the fee policy's total for the
\* challenge's rewardAmount and buyoutFeePaid, whatever the request body said.
C12_ChargedTotalCost ==
    \A k \in DOMAIN charges :
        LET c == challenges[charges[k].challengeId]
        IN  charges[k].amount =
               RoundToCents(calculatePlatformFee(c.rewardAmount, c.buyoutFeePaid).totalCost)

\* C13: as soon as the processor holds a charge, the payments table holds the
\* FUNDING row carrying the charge's id and the challenge's PLATFORM_FEE row
\* (no buyout) or BUYOUT_FEE row (buyout), so that no outcome event of the
\* charge is handled without them.
C13_RowsBeforeCharge ==
    \A k \in DOMAIN charges :
        LET c == charges[k].challengeId
        IN  /\ \E i \in PaymentsOf(c) :
                  /\ payments[i].type = "FUNDING"
                  /\ payments[i].stripePaymentIntentId = k
            /\ \E j \in PaymentsOf(c) :
                  payments[j].type = IF challenges[c].buyoutFeePaid
                                     THEN "BUYOUT_FEE" ELSE "PLATFORM_FEE"

\* C14: fee amounts come from one set of constants: the FUNDING row written
\* at charge initiation (the charged total) is the challenge's rewardAmount
\* plus the amount of the challenge's PLATFORM_FEE or BUYOUT_FEE row.
C14_SingleSourcedFee ==
    \A i, j \in DOMAIN payments :
        (/\ payments[i].challengeId = payments[j].challengeId
         /\ payments[i].type = "FUNDING"
         /\ payments[i].stripePaymentIntentId # 0
         /\ payments[j].type \in {"PLATFORM_FEE", "BUYOUT_FEE"})
        => payments[i].amount =
              challenges[payments[i].challengeId].rewardAmount + payments[j].amount

\* the creation handler in slot s has computed the fees of its USD request
FeesComputed(s) ==
    /\ inflight[s].kind = "create" /\ inflight[s].pc = "cr_create"
    /\ inflight[s].create.rewardType = "USD"

C16_FeeDeductedFromReward ==
    \A s \in Slots :
        LET a == inflight[s].create.rewardAmount
            f == inflight[s].fees
        IN  FeesComputed(s)
            => IF inflight[s].create.buyoutFeePaid
               THEN f.totalCost = a + 15000 /\ f.netPayout = a
               ELSE f.totalCost = a /\ f.netPayout = a - f.platformFee

\* C17: the platformFee and netPayout stored with every USD challenge are the
\* fee policy's values for the challenge's rewardAmount and buyoutFeePaid.
C17_StoredFeesRecomputable ==
    \A c \in DOMAIN challenges :
        challenges[c].rewardType = "USD"
        => LET fee == calculatePlatformFee(challenges[c].rewardAmount,
                                           challenges[c].buyoutFeePaid)
           IN  /\ challenges[c].platformFee = fee.platformFee
               /\ challenges[c].netPayout = fee.netPayout

\* the creation handler in slot s adds a row to the challenges table
Creates(s) ==
    /\ inflight[s].kind = "create" /\ Steps(s)
    /\ DOMAIN challenges' # DOMAIN challenges

\* C18: a USD challenge is created only if the request carried a fee breakdown
\* whose platformFee and netPayout are both within 0.01 of the server's
\* recomputation; otherwise no row is created.
C18_FeeMismatchRejected ==
    [][\A s \in Slots :
          (Creates(s) /\ inflight[s].create.rewardType = "USD")
          => LET fc  == inflight[s].create.feeCalculation
                 fee == calculatePlatformFee(inflight[s].create.rewardAmount,
                                             inflight[s].create.buyoutFeePaid)
             IN  /\ fc.given = "numbers"
                 /\ fc.platformFee - fee.platformFee \in -10..10
                 /\ fc.netPayout - fee.netPayout \in -10..10]_vars

\* the creation handler in slot s checks the complete USD request of a creator
\* that asks for the standard fee
ValidatesStandard(s) ==
    /\ inflight[s].kind = "create" /\ inflight[s].pc = "cr_validate"
    /\ Steps(s)
    /\ inflight[s].create.caller = Creator /\ inflight[s].create.complete
    /\ inflight[s].create.rewardType = "USD"
    /\ ~inflight[s].create.buyoutFeePaid

\* C19: a request for a USD challenge with the standard fee and a rewardAmount
\* below 2 is rejected at validation with 400 and no challenge row is ever
\* created from it, while a rewardAmount of exactly 2 (with its fee breakdown)
\* passes validation.
C19_MinimumReward ==
    [][/\ \A s \in Slots :
             ValidatesStandard(s)
             => /\ inflight[s].create.rewardAmount < 2000
                   => /\ Ends(s)
                      /\ response' = [kind |-> "create", status |-> 400]
                      /\ challenges' = challenges
                /\ (/\ inflight[s].create.rewardAmount = 2000
                    /\ inflight[s].create.feeCalculation =
                          [given |-> "numbers", platformFee |-> 2000, netPayout |-> 2000])
                   => inflight'[s].pc = "cr_create"
       /\ \A c \in DOMAIN challenges' :
             (challenges'[c].rewardType = "USD" /\ ~challenges'[c].buyoutFeePaid)
             => challenges'[c].rewardAmount >= 2000]_vars

\* C19 witness: a $1.99 request was answered 400 and left no row, and a
\* challenge with a reward of exactly $2 has been created
C19_Witness ==
    /\ \E c \in DOMAIN challenges :
          /\ challenges[c].rewardType = "USD" /\ ~challenges[c].buyoutFeePaid
          /\ challenges[c].rewardAmount = 2000
    /\ response = [kind |-> "create", status |-> 400]
    /\ Cardinality(DOMAIN challenges) = 1
    /\ requests = 2
    /\ \A s \in Slots : inflight[s].kind = "idle"

\* the charge-initiating handler in slot s issues an external charge or writes
\* a Payment row
Initiates(s) ==
    /\ inflight[s].kind \in {"checkout", "charge"} /\ Steps(s)
    /\ \/ Len(charges') > Len(charges)
       \/ payments' # payments

\* C20: a charge-initiating request issues an external charge, or creates or
\* changes a Payment row, only if its challenge exists, belongs to the
\* authenticated caller and is not already funded.
C20_ChargePreconditions ==
    [][\A s \in Slots :
          Initiates(s)
          => /\ inflight[s].ch \in ChallengeIds
             /\ challenges[inflight[s].ch].creatorId = inflight[s].user
             /\ ~challenges[inflight[s].ch].isFunded]_vars

\* the handler in slot s applies a funding to challenge c: the first update of
\* handlePaymentSuccess, the update of the payment-status confirmation, or the
\* update of a direct (subscription) funding grant
FundingStep(s, c) ==
    /\ inflight[s].ch = c /\ Steps(s)
    /\ \/ inflight[s].kind = "webhook" /\ inflight[s].pc = "hps_funded"
       \/ inflight[s].kind = "confirm" /\ inflight[s].pc = "cf_challenge"
       \/ inflight[s].kind = "fund" /\ inflight[s].pc = "fd_fund"
       \/ inflight[s].kind = "charge" /\ inflight[s].pc = "ch_subfund"

C22_PaymentsNeverDeleted ==
    [][\A i \in DOMAIN payments :
          \E j \in DOMAIN payments' :
             /\ payments'[j].challengeId = payments[i].challengeId
             /\ payments'[j].type = payments[i].type
             /\ payments'[j].userId = payments[i].userId
             /\ payments'[j].amount = payments[i].amount]_vars

\* the COMPLETED FUNDING rows of method SUBSCRIPTION of challenge c in table p
GrantRows(p, c) ==
    {i \in DOMAIN p : /\ p[i].challengeId = c /\ p[i].type = "FUNDING"
                      /\ p[i].method = "SUBSCRIPTION" /\ p[i].status = "COMPLETED"
                      /\ p[i].amount = 0}

\* the handler in slot s runs a subscription funding (either route)
Grants(s) ==
    /\ inflight[s].kind \in {"fund", "charge"}
    /\ inflight[s].ch \in ChallengeIds
    /\ challenges[inflight[s].ch].rewardType = "SUBSCRIPTION"

\* C23: a subscription funding creates a Payment only as the COMPLETED FUNDING
\* row of amount 0 and method SUBSCRIPTION of a challenge that is not funded
\* yet, and marks a challenge funded only if the challenge has such a row; once
\* no request is in progress a challenge with such a row is isFunded and ACTIVE
\* and has one such row (both or neither); a request that is refused creates no
\* Payment and leaves the challenge as it was.
C23_SubscriptionFunding ==
    [][/\ \A s \in Slots :
             (Grants(s) /\ Steps(s) /\ payments' # payments)
             => /\ ~challenges[inflight[s].ch].isFunded
                /\ Len(payments') = Len(payments) + 1
                /\ Len(payments') \in GrantRows(payments', inflight[s].ch)
       /\ \A s \in Slots :
             (/\ Grants(s) /\ Ends(s)
              /\ response'.status \in {400, 401, 403, 404})
             => payments' = payments /\ challenges' = challenges
       /\ \A s \in Slots :
             (Grants(s) /\ Steps(s) /\ challenges' # challenges)
             => GrantRows(payments, inflight[s].ch) # {}
       /\ (\A s \in Slots : inflight'[s].kind = "idle")
          => \A c \in ChallengeIds :
                GrantRows(payments', c) # {}
                => /\ challenges'[c].isFunded /\ challenges'[c].status = "ACTIVE"
                   /\ Cardinality(GrantRows(payments', c)) = 1]_vars

\* the transfers payUser has executed for submission x
TransfersOf(x) ==
    {i \in DOMAIN payouts : payouts[i].submissionId = x /\ payouts[i].key # <<>>}

\* C24: the payout attempts for one submission present the same idempotency
\* key, and the processor executes at most one transfer per submission.
C24_OnePayoutPerSubmission ==
    \A x \in DOMAIN submissions :
        /\ \A i, j \in TransfersOf(x) : payouts[i].key = payouts[j].key
        /\ Cardinality(TransfersOf(x)) <= 1

\* the COMPLETED PAYOUT rows recorded for submission x
PayoutRows(x) ==
    {i \in DOMAIN payments : /\ payments[i].type = "PAYOUT"
                             /\ payments[i].status = "COMPLETED"
                             /\ payments[i].submissionId = x}

\* C25: in every state a submission with status PAID has a COMPLETED Payment of
\* type PAYOUT recorded for it.
C25_PaidHasPayoutRow ==
    \A x \in DOMAIN submissions :
        submissions[x].status = "PAID" => PayoutRows(x) # {}

\* the program points at which processApprovedSubmission awaits the processor
ExternalPcs == {"po_ledger", "po_pay", "po_grant"}

\* C26: when the external payout or access grant fails, the call returns a
\* failure carrying the error and changes neither the submission nor the
\* payments table; a submission is marked PAID, and a PAYOUT row is written,
\* only for a submission the processor has executed a payout for.
C26_FailedPayoutLeavesApproved ==
    [][/\ \A s \in Slots :
             (/\ inflight[s].kind = "payout" /\ inflight[s].pc \in ExternalPcs
              /\ Ends(s))
             => /\ response'.kind = "payout"
                /\ ~response'.success /\ response'.error # ""
                /\ submissions' = submissions
                /\ payments' = payments
                /\ payouts' = payouts
       /\ \A x \in DOMAIN submissions' :
             (submissions'[x].status # submissions[x].status
              \/ \E i \in DOMAIN payments' \ DOMAIN payments :
                    payments'[i].submissionId = x)
             => \E i \in DOMAIN payouts : payouts[i].submissionId = x]_vars

\* C26 witness: payUser failed, the call returned the failure, and the
\* submission is APPROVED with no PAYOUT row
C26_Witness ==
    /\ response = [kind |-> "payout", success |-> FALSE, error |-> "payUser failed"]
    /\ submissions[1].status = "APPROVED"
    /\ PayoutRows(1) = {}
    /\ payouts = <<>>

\* the review handler in slot s changes a submission or a challenge
Reviews(s) ==
    /\ inflight[s].kind = "review" /\ Steps(s)
    /\ (submissions' # submissions \/ challenges' # challenges)

\* C27: a review changes the submission's status or the challenge's
\* approvedSubmissions only when the caller is the challenge's creator, the
\* submission belongs to the challenge and its status is PENDING at that
\* moment, so that a submission is reviewed at most once; a request that is
\* refused changes neither.
C27_ReviewedOnce ==
    [][\A s \in Slots :
          /\ Reviews(s)
             => /\ Exists(inflight[s].ch)
                /\ challenges[inflight[s].ch].creatorId = inflight[s].user
                /\ inflight[s].sub \in DOMAIN submissions
                /\ submissions[inflight[s].sub].challengeId = inflight[s].ch
                /\ submissions[inflight[s].sub].status = "PENDING"
          /\ (/\ inflight[s].kind = "review" /\ Ends(s)
              /\ response'.status \in {400, 401, 403, 404})
             => submissions' = submissions /\ challenges' = challenges]_vars

\* C28: the submissions table never holds two rows for one (challenge,
\* participant) pair, and a request that finds or meets a row of its pair is
\* refused (400 from the lookup, 500 from the insert) and creates no row.
C28_OneSubmissionPerPair ==
    [][/\ \A i, j \in DOMAIN submissions' :
             (/\ submissions'[i].challengeId = submissions'[j].challengeId
              /\ submissions'[i].userId = submissions'[j].userId)
             => i = j
       /\ \A s \in Slots :
             (/\ inflight[s].kind = "submit" /\ Steps(s)
              /\ inflight[s].pc \in {"sb_existing", "sb_create"}
              /\ existingSubmission(inflight[s].ch, inflight[s].user) # {})
             => /\ Ends(s)
                /\ response'.status \in {400, 500}
                /\ submissions' = submissions]_vars

\* C28 witness: of two concurrent requests of one participant that both found
\* no row, one has inserted its row and the other is about to insert
C28_Witness ==
    \E s \in Slots :
        /\ inflight[s].kind = "submit" /\ inflight[s].pc = "sb_create"
        /\ existingSubmission(inflight[s].ch, inflight[s].user) # {}

\* the COMPLETED Payments of type FUNDING of challenge c
CompletedFunding(c) ==
    {i \in PaymentsOf(c) : payments[i].type = "FUNDING" /\ payments[i].status = "COMPLETED"}

\* C29: in every state a challenge funded with money (USD) has at most one
\* COMPLETED Payment of type FUNDING.
C29_OneCompletedFunding ==
    \A c \in ChallengeIds :
        challenges[c].rewardType = "USD" => Cardinality(CompletedFunding(c)) <= 1

====
